---------------------------- MODULE Spec2Model ----------------------------
(***************************************************************************)
(* Model of the networking queue of gRIP                                   *)
(* (src/rust/src/networking_queue/mod.rs).                                 *)
(*                                                                         *)
(* Threads of the program:                                                 *)
(*   - the owner thread, which holds the Queue and calls send_request,     *)
(*     execute_queue_with_limit, execute_query_with_timeout and stop;      *)
(*   - the working thread, which runs block_on over the command stream;    *)
(*   - the pool threads of the runtime, which run the spawned tasks: one   *)
(*     enqueue task per send_input_command, one task per request.          *)
(* The transport (crate::client::Client) and the timer are collaborators   *)
(* whose completions are events of the environment.                        *)
(*                                                                         *)
(* Time is kept as ages: instead of an Instant the model stores the time   *)
(* that has passed since that Instant was taken, saturating one tick above *)
(* the largest duration any call compares it with.                         *)
(***************************************************************************)
EXTENDS Integers, Sequences, FiniteSets, TLC

\* ------------------------------------------------------------------ bounds
MaxReq == 2
MaxStops == 2
MaxLimit == 1
MaxInterval == 1

\* ------------------------------------------------------- program constants
U16Max == 65535

VARIABLES
    working_thread,                \* Queue.working_thread: "Some" | "None"
    number_of_pending_requests,    \* Queue.number_of_pending_requests
    last_time_executed_with_limit, \* None, or Some(age of the recorded Instant)
    enqueue_tasks,                 \* lazy send tasks spawned on the executor
    input_command_channel,         \* futures mpsc: caller -> worker
    response_channel,              \* crossbeam channel: tasks -> owner
    worker_state,                  \* "Running" | "Draining" | "Stopped"
    request,                       \* request[r]: the Request as submitted
    token,                         \* RequestCancellation: "none"|"alive"|"dropped"
    task,                          \* per-request task: "none"|"running"|"finished"|"dropped"
    transport,                     \* transport future: "idle"|"pending"|"ok"|"err"
    delay,                         \* Timeout's Delay: state "unset"|"armed"|"elapsed", and its duration
    owner,                         \* the owner thread: position and locals
    last_call,                     \* history: Some(outcome of the last execute_queue_with_limit), None while it runs
    callback_log,                  \* history: callback_log[r] = invocations of r's callback
    published,                     \* history: OutputCommands sent for r
    cancel_early,                  \* history: token dropped before transport/timeout resolved
    stop_calls,                    \* history: number of stop() calls
    limit_entry,                   \* history: Some(callbacks invoked, counter) at the entry of the running execute_queue_with_limit
    recv_disconnected              \* history: a try_recv has found the channel empty with every sender gone

vars == << working_thread, number_of_pending_requests, last_time_executed_with_limit,
           enqueue_tasks, input_command_channel, response_channel, worker_state,
           request, token, task, transport, delay, owner, last_call,
           callback_log, published, cancel_early, stop_calls, limit_entry,
           recv_disconnected >>

queueVars == << working_thread, number_of_pending_requests, last_time_executed_with_limit >>
chanVars == << enqueue_tasks, input_command_channel, response_channel >>
reqVars == << request, token, task, transport, delay >>
histVars == << last_call, callback_log, published, cancel_early, stop_calls,
              limit_entry, recv_disconnected >>

Requests == 1..MaxReq
\* Option<T>: None is the empty tuple, Some(x) the one-element tuple
None == << >>
Some(x) == << x >>

\* Option<Duration> values a caller passes as RequestOptions.timeout
TimeoutOptions == {None, Some(0)}

\* A Request as the caller builds it (the fields the queue itself reads)
RequestValues == [timeout : TimeoutOptions]
DefaultRequest == [timeout |-> None]

\* Durations and limits a caller passes to the drain operations
Intervals == 0..MaxInterval
Limits == 0..MaxLimit
SleepSteps == {1}

\* One tick above the largest duration an age is compared with
ElapsedCap == MaxInterval + 1

Min(a, b) == IF a <= b THEN a ELSE b

\* Instant::now().duration_since(instant) after d more ticks
Aged(age, d) == Min(age + d, ElapsedCap)
AgedOption(last, d) == IF last = None THEN None ELSE Some(Aged(last[1], d))

\* request.options.timeout.unwrap_or_else(|| Duration::new(u16::MAX, 0))
TimeoutDuration(opt) == IF opt = None THEN U16Max ELSE opt[1]

NoDelay == [state |-> "unset", duration |-> 0]

\* Delay::new(Instant::now() + duration): a deadline that is not in the
\* future is reached from the start, any other one is waited for
NewDelay(duration) ==
    [state |-> IF duration = 0 THEN "elapsed" ELSE "armed", duration |-> duration]

RequestCommand(r) == [type |-> "Request", id |-> r]
QuitCommand == [type |-> "Quit", id |-> 0]
InputCommands == {QuitCommand} \cup {RequestCommand(r) : r \in Requests}

IdleOwner == [pc |-> "idle", counter |-> 0, limit |-> 0, timeout |-> 0,
              elapsed |-> 0, step |-> 0]

Init ==
    /\ working_thread = "Some"
    /\ number_of_pending_requests = 0
    /\ last_time_executed_with_limit = None
    /\ enqueue_tasks = {}
    /\ input_command_channel = << >>
    /\ response_channel = << >>
    /\ worker_state = "Running"
    /\ request = [r \in Requests |-> DefaultRequest]
    /\ token = [r \in Requests |-> "none"]
    /\ task = [r \in Requests |-> "none"]
    /\ transport = [r \in Requests |-> "idle"]
    /\ delay = [r \in Requests |-> NoDelay]
    /\ owner = IdleOwner
    /\ last_call = None
    /\ callback_log = [r \in Requests |-> << >>]
    /\ published = [r \in Requests |-> 0]
    /\ cancel_early = [r \in Requests |-> FALSE]
    /\ stop_calls = 0
    /\ limit_entry = None
    /\ recv_disconnected = FALSE

\* ------------------------------------------------------ history counters

RECURSIVE SumLen(_, _)
SumLen(log, n) == IF n = 0 THEN 0 ELSE Len(log[n]) + SumLen(log, n - 1)

\* send_request calls made so far, callbacks invoked so far
NumSubmitted == Cardinality({r \in Requests : token[r] # "none"})
NumDrained == SumLen(callback_log, MaxReq)
NumDrainedNext == SumLen(callback_log', MaxReq)

\* ------------------------------------------------------- the owner thread

\* Mutant: the counter is not bumped
SendInputCommand_NoCount(cmd) ==
    /\ UNCHANGED number_of_pending_requests
    /\ enqueue_tasks' = IF worker_state = "Stopped"
                          THEN enqueue_tasks
                          ELSE enqueue_tasks \cup {cmd}

\* Queue::send_input_command: the counter is bumped for every command, and
\* the send itself is a lazy task handed to the executor.  An executor that
\* has been shut down (the runtime is dropped when the working thread ends)
\* accepts no task.
SendInputCommand(cmd) ==
    /\ number_of_pending_requests' = number_of_pending_requests + 1
    /\ enqueue_tasks' = IF worker_state = "Stopped"
                          THEN enqueue_tasks
                          ELSE enqueue_tasks \cup {cmd}

\* Queue::send_request
SendRequest(r, req) ==
    /\ owner.pc = "idle"
    /\ token[r] = "none"
    /\ \A q \in Requests : q < r => token[q] # "none"
    /\ SendInputCommand(RequestCommand(r))
    /\ request' = [request EXCEPT ![r] = req]
    /\ token' = [token EXCEPT ![r] = "alive"]
    /\ UNCHANGED << working_thread, last_time_executed_with_limit,
                    input_command_channel, response_channel, worker_state,
                    task, transport, delay, owner, histVars >>

\* drop(RequestCancellation): the oneshot Sender goes away.  The token may
\* have been moved to any thread, so this does not wait for the owner.
DropCancellation(r) ==
    /\ token[r] = "alive"
    /\ token' = [token EXCEPT ![r] = "dropped"]
    /\ cancel_early' = [cancel_early EXCEPT ![r] =
                          /\ task[r] \in {"none", "running"}
                          /\ transport[r] \notin {"ok", "err"}
                          /\ delay[r].state # "elapsed"]
    /\ UNCHANGED << queueVars, chanVars, worker_state, request, task,
                    transport, delay, owner, last_call, callback_log,
                    published, stop_calls, limit_entry, recv_disconnected >>

\* The callback of an OutputCommand, run by the thread `thread`
Invoke(log, out, thread) ==
    [log EXCEPT ![out.id] = Append(@, [result |-> out.kind,
                                       base_request |-> out.base_request,
                                       thread |-> thread])]

\* Queue::try_recv_queue on the state (channel, counter, log): Ok(()) pops one
\* OutputCommand, runs its callback and decrements; Err leaves all as it was.
TryRecvOk(chan) == chan # << >>
TryRecvChannel(chan) == IF TryRecvOk(chan) THEN Tail(chan) ELSE chan
\* Mutant: the counter is decremented whether or not something was received
TryRecvCounter_Always(chan, n) == n - 1

TryRecvCounter(chan, n) == IF TryRecvOk(chan) THEN n - 1 ELSE n
TryRecvLog(chan, log) == IF TryRecvOk(chan) THEN Invoke(log, Head(chan), "owner") ELSE log

\* The error of response_receiver.try_recv(): a waiting OutputCommand is
\* handed out even when the senders are gone; with none waiting the error is
\* Disconnected once the working thread and the tasks, which hold the
\* senders, are gone, and Empty before that.
TryRecvError(chan) ==
    IF TryRecvOk(chan) THEN "None"
    ELSE IF worker_state = "Stopped" THEN "Disconnected" ELSE "Empty"

TryRecvQueue ==
    /\ response_channel' = TryRecvChannel(response_channel)
    /\ number_of_pending_requests' =
          TryRecvCounter(response_channel, number_of_pending_requests)
    /\ callback_log' = TryRecvLog(response_channel, callback_log)
    /\ recv_disconnected' =
          (recv_disconnected \/ TryRecvError(response_channel) = "Disconnected")

\* Mutant: the comparison is strict
RateLimited_Strict(last, delay_between_executions) ==
    /\ last # None
    /\ last[1] < delay_between_executions

\* The rate limit of execute_queue_with_limit (lines 319-323)
RateLimited(last, delay_between_executions) ==
    /\ last # None
    /\ last[1] <= delay_between_executions

\* Queue::execute_queue_with_limit, up to the first test of the loop
ExecuteQueueWithLimit(limit, delay_between_executions) ==
    /\ owner.pc = "idle"
    /\ IF RateLimited(last_time_executed_with_limit, delay_between_executions)
         THEN /\ last_call' = Some([returned |-> 0, recorded |-> FALSE])
              /\ UNCHANGED << last_time_executed_with_limit, owner >>
              /\ UNCHANGED limit_entry
         ELSE /\ last_time_executed_with_limit' = Some(0)
              /\ owner' = [IdleOwner EXCEPT !.pc = "limit", !.limit = limit]
              /\ last_call' = None
              /\ limit_entry' = Some([drained |-> NumDrained,
                                      pending |-> number_of_pending_requests])
    /\ UNCHANGED << working_thread, number_of_pending_requests, chanVars,
                    worker_state, reqVars, callback_log, published,
                    cancel_early, stop_calls, recv_disconnected >>

\* Mutant: the loop test is `counter < limit`
LimitLoop_AtMostLimit ==
    /\ owner.pc = "limit"
    /\ IF owner.counter < owner.limit /\ TryRecvOk(response_channel)
         THEN /\ TryRecvQueue
              /\ owner' = [owner EXCEPT !.counter = @ + 1]
              /\ UNCHANGED << last_call, limit_entry >>
         ELSE /\ owner' = IdleOwner
              /\ last_call' = Some([returned |-> owner.counter, recorded |-> TRUE])
              /\ limit_entry' = None
              /\ recv_disconnected' =
                    \/ recv_disconnected
                    \/ /\ owner.counter <= owner.limit
                       /\ TryRecvError(response_channel) = "Disconnected"
              /\ UNCHANGED << response_channel, number_of_pending_requests,
                              callback_log >>
    /\ UNCHANGED << working_thread, last_time_executed_with_limit,
                    enqueue_tasks, input_command_channel, worker_state,
                    reqVars, published, cancel_early, stop_calls >>

\* One turn of `while counter <= limit`: a try_recv_queue that succeeds
\* counts, one that fails breaks; the function then returns counter.
LimitLoop ==
    /\ owner.pc = "limit"
    /\ IF owner.counter <= owner.limit /\ TryRecvOk(response_channel)
         THEN /\ TryRecvQueue
              /\ owner' = [owner EXCEPT !.counter = @ + 1]
              /\ UNCHANGED << last_call, limit_entry >>
         ELSE /\ owner' = IdleOwner
              /\ last_call' = Some([returned |-> owner.counter, recorded |-> TRUE])
              /\ limit_entry' = None
              /\ recv_disconnected' =
                    \/ recv_disconnected
                    \/ /\ owner.counter <= owner.limit
                       /\ TryRecvError(response_channel) = "Disconnected"
              /\ UNCHANGED << response_channel, number_of_pending_requests,
                              callback_log >>
    /\ UNCHANGED << working_thread, last_time_executed_with_limit,
                    enqueue_tasks, input_command_channel, worker_state,
                    reqVars, published, cancel_early, stop_calls >>

\* Time passing for d ticks: every recorded Instant grows older
Advance(d) ==
    /\ last_time_executed_with_limit' = AgedOption(last_time_executed_with_limit, d)
    /\ owner' = [owner EXCEPT !.elapsed = IF owner.pc = "query" THEN Aged(@, d) ELSE @]

\* Queue::execute_query_with_timeout: `instant` is taken
ExecuteQueryWithTimeout(timeout, one_step_timeout) ==
    /\ owner.pc = "idle"
    /\ owner' = [IdleOwner EXCEPT !.pc = "query", !.timeout = timeout,
                                  !.step = one_step_timeout]
    /\ UNCHANGED << queueVars, chanVars, worker_state, reqVars, histVars >>

\* One turn of `while now - instant <= timeout`: try_recv_queue().ok(), then
\* thread::sleep(one_step_timeout); the function returns when the test fails.
QueryLoop ==
    /\ owner.pc = "query"
    /\ IF owner.elapsed <= owner.timeout
         THEN /\ TryRecvQueue
              /\ Advance(owner.step)
         ELSE /\ owner' = IdleOwner
              /\ UNCHANGED << response_channel, number_of_pending_requests,
                              callback_log, last_time_executed_with_limit,
                              recv_disconnected >>
    /\ UNCHANGED << working_thread, enqueue_tasks, input_command_channel,
                    worker_state, reqVars, last_call, published,
                    cancel_early, stop_calls, limit_entry >>

\* The clock of the machine
Tick ==
    /\ Advance(1)
    /\ UNCHANGED << working_thread, number_of_pending_requests, chanVars,
                    worker_state, reqVars, histVars >>

\* Queue::stop up to thread.join(): Quit is handed to send_input_command and
\* the thread handle, if still there, is taken out of the Queue.  Drop for
\* Queue is this same call.
Stop ==
    /\ owner.pc = "idle"
    /\ stop_calls < MaxStops
    /\ SendInputCommand(QuitCommand)
    /\ stop_calls' = stop_calls + 1
    /\ working_thread' = "None"
    /\ owner' = IF working_thread = "Some"
                  THEN [IdleOwner EXCEPT !.pc = "join"]
                  ELSE IdleOwner
    /\ UNCHANGED << last_time_executed_with_limit, input_command_channel,
                    response_channel, worker_state, reqVars, last_call,
                    callback_log, published, cancel_early, limit_entry,
                    recv_disconnected >>

\* thread.join() returns once the working thread has ended
StopJoin ==
    /\ owner.pc = "join"
    /\ worker_state = "Stopped"
    /\ owner' = IdleOwner
    /\ UNCHANGED << queueVars, chanVars, worker_state, reqVars, histVars >>

\* ----------------------------------------------- the runtime's pool threads

\* A lazy enqueue task runs: input_command_sender.send(input_command).  The
\* pool runs the spawned tasks in no particular order.  Once the command
\* stream has ended its receiver is gone and the send fails.
EnqueueRun(cmd) ==
    /\ cmd \in enqueue_tasks
    /\ enqueue_tasks' = enqueue_tasks \ {cmd}
    /\ input_command_channel' = IF worker_state = "Running"
                                  THEN Append(input_command_channel, cmd)
                                  ELSE input_command_channel
    /\ UNCHANGED << queueVars, response_channel, worker_state, reqVars,
                    owner, histVars >>

\* ------------------------------------------------------ the working thread

\* Mutant: take_while lets Quit through and for_each skips it
WorkerReceive_QuitIgnored ==
    /\ worker_state = "Running"
    /\ input_command_channel # << >>
    /\ LET cmd == Head(input_command_channel) IN
         /\ input_command_channel' = Tail(input_command_channel)
         /\ IF cmd.type = "Quit"
              THEN UNCHANGED << task, transport, delay >>
              ELSE /\ task' = [task EXCEPT ![cmd.id] = "running"]
                   /\ transport' = [transport EXCEPT ![cmd.id] = "pending"]
                   /\ delay' = [delay EXCEPT ![cmd.id] =
                          NewDelay(TimeoutDuration(request[cmd.id].timeout))]
    /\ UNCHANGED << queueVars, enqueue_tasks, response_channel, worker_state,
                    request, token, owner, histVars >>

\* Mutant: take_while stops nothing, the commands behind Quit are taken too
WorkerReceive_AfterQuit ==
    /\ worker_state \in {"Running", "Draining"}
    /\ input_command_channel # << >>
    /\ LET cmd == Head(input_command_channel) IN
         /\ input_command_channel' = Tail(input_command_channel)
         /\ IF cmd.type = "Quit"
              THEN /\ worker_state' = "Draining"
                   /\ UNCHANGED << task, transport, delay >>
              ELSE /\ task' = [task EXCEPT ![cmd.id] = "running"]
                   /\ transport' = [transport EXCEPT ![cmd.id] = "pending"]
                   /\ delay' = [delay EXCEPT ![cmd.id] =
                          NewDelay(TimeoutDuration(request[cmd.id].timeout))]
                   /\ UNCHANGED worker_state
    /\ UNCHANGED << queueVars, enqueue_tasks, response_channel, request,
                    token, owner, histVars >>

\* take_while / for_each over the command stream (lines 151-248): Quit ends
\* the stream, and what is still queued behind it is dropped with the
\* receiver; a Request becomes a task on the executor, with its transport
\* future created and its Delay armed.
WorkerReceive ==
    /\ worker_state = "Running"
    /\ input_command_channel # << >>
    /\ LET cmd == Head(input_command_channel) IN
         IF cmd.type = "Quit"
           THEN /\ worker_state' = "Draining"
                /\ input_command_channel' = << >>
                /\ UNCHANGED << task, transport, delay >>
           ELSE /\ input_command_channel' = Tail(input_command_channel)
                /\ task' = [task EXCEPT ![cmd.id] = "running"]
                /\ transport' = [transport EXCEPT ![cmd.id] = "pending"]
                /\ delay' = [delay EXCEPT ![cmd.id] =
                       NewDelay(TimeoutDuration(request[cmd.id].timeout))]
                /\ UNCHANGED worker_state
    /\ UNCHANGED << queueVars, enqueue_tasks, response_channel, request,
                    token, owner, histVars >>

\* block_on has returned: the runtime is dropped, which shuts the pool down
\* and drops every task that has not finished, and with it the task's
\* transport future and Delay; the thread then ends.
WorkerShutdown ==
    /\ worker_state = "Draining"
    /\ worker_state' = "Stopped"
    /\ enqueue_tasks' = {}
    /\ task' = [r \in Requests |-> IF task[r] = "running" THEN "dropped" ELSE task[r]]
    /\ transport' = [r \in Requests |-> IF task[r] = "running" THEN "idle" ELSE transport[r]]
    /\ delay' = [r \in Requests |-> IF task[r] = "running" THEN NoDelay ELSE delay[r]]
    /\ UNCHANGED << queueVars, input_command_channel, response_channel,
                    request, token, owner, histVars >>

\* ------------------------------------------------- the per-request tasks

\* The transport finishes the exchange of a live task (the collaborator's
\* doing): its future will yield Ok((status, body)) or Err(e).
TransportComplete(r, res) ==
    /\ task[r] = "running"
    /\ transport[r] = "pending"
    /\ transport' = [transport EXCEPT ![r] = res]
    /\ UNCHANGED << queueVars, chanVars, worker_state, request, token, task,
                    delay, owner, histVars >>

\* The timer: the Delay's duration has passed since the task was built
TimerElapse(r) ==
    /\ task[r] = "running"
    /\ delay[r].state = "armed"
    /\ delay' = [delay EXCEPT ![r].state = "elapsed"]
    /\ UNCHANGED << queueVars, chanVars, worker_state, request, token, task,
                    transport, owner, histVars >>

\* .map(Successful) / .or_else(Error) on the transport future (lines 189-195)
TransportState(t) ==
    IF t = "ok" THEN "Successful" ELSE IF t = "err" THEN "Error" ELSE "NotReady"

\* cancellation_signal.map(Canceled).or_else(Canceled) (lines 196-199): the
\* receiver is ready once the sender has sent or is gone
CancellationState(tok) == IF tok = "dropped" THEN "Canceled" ELSE "NotReady"

\* Mutant: select2 looks at its second future first
Select2_SecondFirst(a, b) == IF b # "NotReady" THEN b ELSE a

\* a.select2(b): a is polled first, b only if a is not ready
Select2(a, b) == IF a # "NotReady" THEN a ELSE b

\* Mutant: the Delay is never looked at
TimeoutPoll_NoTimer(value, d) == value

\* Mutant: the Delay is polled before the value
TimeoutPoll_DelayFirst(value, d) ==
    IF d.state = "elapsed" THEN "Timeout" ELSE value

\* value.timeout(d).or_else(Timeout): the value is polled first, the Delay
\* only if the value is not ready (lines 205-207)
TimeoutPoll(value, d) ==
    IF value # "NotReady" THEN value
    ELSE IF d.state = "elapsed" THEN "Timeout" ELSE "NotReady"

\* One poll of the task's future, down to the State it resolves to
PollState(r) ==
    TimeoutPoll(Select2(TransportState(transport[r]), CancellationState(token[r])),
                delay[r])

\* The OutputCommand a State is sent as (lines 210-240)
OutputKind(state) ==
    CASE state = "Successful" -> "Response"
      [] state = "Error"      -> "HTTPError"
      [] state = "Canceled"   -> "RequestCancelled"
      [] state = "Timeout"    -> "RequestTimeout"

\* Mutant: the Response is built from a default Request
BaseRequest_Default(r, state) ==
    IF state = "Successful" THEN Some(DefaultRequest) ELSE None

\* Response::new(request, vec, status_code) (lines 213-217): a Response
\* carries the Request the task was built from, an Error carries none
BaseRequest(r, state) ==
    IF state = "Successful" THEN Some(request[r]) ELSE None

OutputCommand(r, state) ==
    [id |-> r, kind |-> OutputKind(state), base_request |-> BaseRequest(r, state)]

\* Mutant: the task runs the callback itself, on its pool thread
Publish_InvokesCallback(r, state) ==
    /\ response_channel' = Append(response_channel, OutputCommand(r, state))
    /\ published' = [published EXCEPT ![r] = @ + 1]
    /\ task' = [task EXCEPT ![r] = "finished"]
    /\ callback_log' = Invoke(callback_log, OutputCommand(r, state), "pool")

\* Mutant: the task does not end with its send and is polled again
Publish_StaysRunning(r, state) ==
    /\ response_channel' = Append(response_channel, OutputCommand(r, state))
    /\ published' = [published EXCEPT ![r] = @ + 1]
    /\ UNCHANGED task
    /\ UNCHANGED callback_log

\* and_then(response_sender.send(..)): what the resolved task does
Publish(r, state) ==
    /\ response_channel' = Append(response_channel, OutputCommand(r, state))
    /\ published' = [published EXCEPT ![r] = @ + 1]
    /\ task' = [task EXCEPT ![r] = "finished"]
    /\ UNCHANGED callback_log

\* A pool thread polls a task that has something to do
TaskPoll(r) ==
    /\ task[r] = "running"
    /\ PollState(r) # "NotReady"
    /\ Publish(r, PollState(r))
    /\ UNCHANGED << queueVars, enqueue_tasks, input_command_channel,
                    worker_state, request, token, transport, delay, owner,
                    last_call, cancel_early, stop_calls, limit_entry,
                    recv_disconnected >>

\* ------------------------------------------------------- the specification

Next ==
    \/ \E r \in Requests, req \in RequestValues : SendRequest(r, req)
    \/ \E r \in Requests : DropCancellation(r)
    \/ \E l \in Limits, d \in Intervals : ExecuteQueueWithLimit(l, d)
    \/ LimitLoop
    \/ \E t \in Intervals, s \in SleepSteps : ExecuteQueryWithTimeout(t, s)
    \/ QueryLoop
    \/ Tick
    \/ Stop
    \/ StopJoin
    \/ \E cmd \in InputCommands : EnqueueRun(cmd)
    \/ WorkerReceive
    \/ WorkerShutdown
    \/ \E r \in Requests, res \in {"ok", "err"} : TransportComplete(r, res)
    \/ \E r \in Requests : TimerElapse(r)
    \/ \E r \in Requests : TaskPoll(r)

Spec == Init /\ [][Next]_vars

\* The liveness scenario: a caller that drains with the blocking drain,
\* execute_query_with_timeout, as the tests of the module do, and makes no
\* rate-limited call.  Every other step of the program is as in Next.
LiveNext ==
    \/ \E r \in Requests, req \in RequestValues : SendRequest(r, req)
    \/ \E r \in Requests : DropCancellation(r)
    \/ \E t \in Intervals, s \in SleepSteps : ExecuteQueryWithTimeout(t, s)
    \/ QueryLoop
    \/ Tick
    \/ Stop
    \/ StopJoin
    \/ \E cmd \in InputCommands : EnqueueRun(cmd)
    \/ WorkerReceive
    \/ WorkerShutdown
    \/ \E r \in Requests, res \in {"ok", "err"} : TransportComplete(r, res)
    \/ \E r \in Requests : TimerElapse(r)
    \/ \E r \in Requests : TaskPoll(r)

\* A drain call is made by the owner
DrainCall == \E t \in Intervals, s \in SleepSteps : ExecuteQueryWithTimeout(t, s)

\* A drain step that pops an OutputCommand and runs its callback
DrainPop ==
    /\ QueryLoop
    /\ response_channel' # response_channel

\* The scheduling the runtime and the operating system give: every spawned
\* task is run, the working thread is run, every timer fires, the owner
\* thread is run when it is inside a call.  And the caller keeps draining:
\* it makes drain calls again and again, and among them calls whose loop
\* gets to look at the Result Channel when something waits there.
Fairness ==
    /\ \A cmd \in InputCommands : WF_vars(EnqueueRun(cmd))
    /\ WF_vars(WorkerReceive)
    /\ WF_vars(WorkerShutdown)
    /\ WF_vars(StopJoin)
    /\ \A r \in Requests : WF_vars(TimerElapse(r))
    /\ \A r \in Requests : WF_vars(TaskPoll(r))
    /\ WF_vars(QueryLoop)
    /\ WF_vars(DrainCall)
    /\ SF_vars(DrainPop)

FairSpec == Init /\ [][LiveNext]_vars /\ Fairness

\* ------------------------------------------------------ derived quantities

\* The kinds of result a request's callback has been given
Results(r) == {callback_log[r][i].result : i \in DOMAIN callback_log[r]}

\* The request's OutputCommands waiting on the Result Channel
Waiting(r) == {i \in DOMAIN response_channel : response_channel[i].id = r}

ResultKinds == {"Response", "HTTPError", "RequestCancelled", "RequestTimeout"}

\* ------------------------------------------------------------------ claims

\* C1: a callback is invoked only by a step of a drain operation
\* (execute_queue_with_limit or execute_query_with_timeout, both through
\* try_recv_queue) running on the owner thread; no step of the working
\* thread, of an enqueue task or of a per-request task invokes one.
C1_CallbackOnlyInDrain ==
    [][callback_log' # callback_log =>
          /\ owner.pc \in {"limit", "query"}
          /\ \A r \in Requests : \A i \in DOMAIN callback_log'[r] :
                callback_log'[r][i].thread = "owner"]_vars

C1_Witness ==
    \E r \in Requests :
        /\ callback_log[r] # << >>
        /\ worker_state = "Running"
        /\ \E q \in Requests : task[q] = "running"

\* C2: whatever the order of transport completion, cancellation and timeout
\* expiry, at most one OutputCommand is ever sent for a request, so that its
\* callback runs at most once and never gets both a Response and an Error.
C2_AtMostOneOutput ==
    \A r \in Requests :
        /\ published[r] <= 1
        /\ Cardinality(Waiting(r)) + Len(callback_log[r]) <= 1
        /\ Cardinality(Results(r)) <= 1

C2_Witness ==
    \E r \in Requests :
        /\ published[r] = 1
        /\ transport[r] \in {"ok", "err"}
        /\ token[r] = "dropped"
        /\ delay[r].state = "elapsed"
        /\ Len(callback_log[r]) = 1

\* C3: in a run where stop() is never called, under the fair scheduling of
\* Fairness, every submitted request has exactly one of Response,
\* TransportError, RequestCancelled, RequestTimeout delivered to its callback.
C3_EventuallyDelivered ==
    \A r \in Requests :
        (token[r] # "none") ~>
            \/ stop_calls > 0
            \/ /\ Len(callback_log[r]) = 1
               /\ callback_log[r][1].result \in ResultKinds

C3_Witness ==
    /\ stop_calls = 0
    /\ \A r \in Requests :
          /\ Len(callback_log[r]) = 1
          /\ callback_log[r][1].result \in ResultKinds
    /\ \E r \in Requests : callback_log[r][1].result = "RequestTimeout"

\* C4 (as claimed): pending_count() is always the number of submit calls
\* minus the number of callbacks the drains have invoked.
C4_PendingIsSubmittedMinusDrained ==
    number_of_pending_requests = NumSubmitted - NumDrained

\* C5: every drain step that finds an OutputCommand invokes one callback and
\* takes exactly one off pending_count(), and it does so only when the count
\* is at least 1, so that the unsigned counter never underflows.
C5_DecrementByOne ==
    [][NumDrainedNext # NumDrained =>
          /\ NumDrainedNext = NumDrained + 1
          /\ number_of_pending_requests >= 1
          /\ number_of_pending_requests' = number_of_pending_requests - 1]_vars

C5_Witness ==
    /\ NumDrained = MaxReq
    /\ number_of_pending_requests = 0

C7_ZeroTimeoutAlwaysTimesOut ==
    \A r \in Requests :
        (request[r].timeout = Some(0) /\ token[r] = "alive") =>
            Results(r) \subseteq {"RequestTimeout"}

\* C8: an execute_queue_with_limit call made within the interval of the
\* call before it (which took the timestamp) invokes no callback, leaves
\* pending_count() and the Result Channel alone and returns 0 at once.
C8_SecondCallWithinInterval ==
    [][\A l \in Limits, d \in Intervals :
          ( /\ ExecuteQueueWithLimit(l, d)
            /\ last_call # None
            /\ last_call[1].recorded
            /\ last_time_executed_with_limit[1] <= d )
          => /\ callback_log' = callback_log
             /\ number_of_pending_requests' = number_of_pending_requests
             /\ response_channel' = response_channel
             /\ owner' = IdleOwner
             /\ last_call' = Some([returned |-> 0, recorded |-> FALSE])]_vars

C8_Witness ==
    /\ last_call = Some([returned |-> 0, recorded |-> FALSE])
    /\ last_time_executed_with_limit # None
    /\ Len(response_channel) = MaxReq
    /\ NumDrained = 0

\* C9: a stop() made while requests are in flight comes back: Quit reaches
\* the working thread, the thread ends and the join returns.
C9_StopTerminates ==
    (owner.pc = "join") ~> (owner.pc = "idle" /\ worker_state = "Stopped")

C9_Witness ==
    /\ owner.pc = "idle"
    /\ worker_state = "Stopped"
    /\ stop_calls = 1
    /\ \E r \in Requests : task[r] = "dropped"

\* C10 (as claimed): a stop() after a completed stop() changes neither
\* pending_count() nor the Command Channel nor the state of the worker.
C10_SecondStopIsNoop ==
    [][(stop_calls >= 1 /\ stop_calls' = stop_calls + 1) =>
          /\ number_of_pending_requests' = number_of_pending_requests
          /\ enqueue_tasks' = enqueue_tasks
          /\ input_command_channel' = input_command_channel
          /\ worker_state' = worker_state]_vars

\* C11: a try_recv_queue made when the Result Channel is empty or
\* disconnected fails at once: it invokes no callback and leaves
\* pending_count() and the channel as they are, the rate-limited loop breaks
\* and returns its counter; and the drain step never waits for the channel.
C11_EmptyDrainDoesNothing ==
    /\ [][( /\ LimitLoop \/ QueryLoop
            /\ TryRecvError(response_channel) # "None" )
          => /\ callback_log' = callback_log
             /\ number_of_pending_requests' = number_of_pending_requests
             /\ response_channel' = response_channel
             /\ owner.pc = "limit" =>
                   /\ owner' = IdleOwner
                   /\ last_call' = Some([returned |-> owner.counter,
                                         recorded |-> TRUE])]_vars
    /\ [](owner.pc \in {"limit", "query"} => ENABLED (LimitLoop \/ QueryLoop))

C11_Witness ==
    /\ recv_disconnected
    /\ owner.pc = "idle"
    /\ last_call = Some([returned |-> 0, recorded |-> TRUE])
    /\ number_of_pending_requests >= 1

\* C12: when an execute_queue_with_limit call that passed the rate limit
\* returns, the value it returns is the number of callbacks invoked since
\* its entry, that number is min(limit + 1, outcomes that were on the Result
\* Channel during the call: those taken plus those still waiting), and
\* pending_count() has gone down by it.
C12_ReturnsNumberDrained ==
    [][(owner.pc = "limit" /\ owner'.pc = "idle") =>
          LET returned == last_call'[1].returned
              invoked == NumDrainedNext - limit_entry[1].drained
              available == invoked + Len(response_channel')
          IN  /\ returned = invoked
              /\ returned = Min(owner.limit + 1, available)
              /\ number_of_pending_requests' = limit_entry[1].pending - returned]_vars

C12_Witness ==
    /\ owner.pc = "idle"
    /\ last_call = Some([returned |-> 1, recorded |-> TRUE])
    /\ NumDrained = 1
    /\ Len(response_channel) = 1
    /\ number_of_pending_requests = 1

\* C13: once the working thread has received Quit it takes no further
\* command: it never goes back to Running (Draining can only become
\* Stopped), nothing is taken off the Command Channel, and a request that
\* has no task by then never gets one.
C13_NothingAfterQuit ==
    [][worker_state # "Running" =>
          /\ worker_state' # "Running"
          /\ worker_state = "Stopped" => worker_state' = "Stopped"
          /\ Len(input_command_channel') >= Len(input_command_channel)
          /\ \A r \in Requests : task[r] = "none" => task'[r] = "none"]_vars

C13_Witness ==
    /\ worker_state = "Draining"
    /\ owner.pc = "join"
    /\ \E r \in Requests :
          /\ token[r] # "none"
          /\ task[r] = "none"
          /\ RequestCommand(r) \notin enqueue_tasks

\* C14 (as claimed): every task the working thread had spawned when it
\* received Quit runs to its outcome and publishes it before stop() returns:
\* once the thread has ended, every request that was given a task has its
\* OutputCommand published.
C14_SpawnedTasksPublish ==
    worker_state = "Stopped" =>
        \A r \in Requests : task[r] # "none" => published[r] = 1

\* C15: a poll of a task resolves to Timeout only when the Delay has
\* elapsed and neither the transport nor the cancellation signal is ready;
\* when the cancellation and the Delay are both ready at the same poll (the
\* transport is not), the task resolves to Canceled.
C15_TimeoutOnlyIfNothingResolved ==
    [][\A r \in Requests : TaskPoll(r) =>
          LET kind == response_channel'[Len(response_channel')].kind
          IN  /\ kind = "RequestTimeout" =>
                    /\ transport[r] = "pending"
                    /\ token[r] # "dropped"
                    /\ delay[r].state = "elapsed"
              /\ ( /\ token[r] = "dropped"
                   /\ delay[r].state = "elapsed"
                   /\ transport[r] = "pending" ) => kind = "RequestCancelled"]_vars

C15_Witness ==
    \E r \in Requests :
        /\ ~cancel_early[r]
        /\ token[r] = "dropped"
        /\ delay[r].state = "elapsed"
        /\ transport[r] = "pending"
        /\ Results(r) = {"RequestCancelled"}

\* C16: dropping the token of a request whose OutputCommand has been
\* published changes nothing but the token: the Result Channel, the
\* delivered results, pending_count(), the request's task and every other
\* request are as before; and a published request is never published again.
C16_LateDropChangesNothing ==
    [][\A r \in Requests :
          /\ ( /\ published[r] = 1
               /\ token[r] = "alive"
               /\ token'[r] = "dropped" )
             => /\ response_channel' = response_channel
                /\ callback_log' = callback_log
                /\ number_of_pending_requests' = number_of_pending_requests
                /\ published' = published
                /\ << task, transport, delay, request >>' =
                      << task, transport, delay, request >>
                /\ \A q \in Requests \ {r} : token'[q] = token[q]
          /\ ( published[r] = 1 /\ token[r] = "dropped" ) =>
                /\ published'[r] = 1
                /\ Cardinality(Waiting(r))' + Len(callback_log'[r]) = 1]_vars

C16_Witness ==
    \E r \in Requests :
        /\ token[r] = "dropped"
        /\ published[r] = 1
        /\ transport[r] = "pending"
        /\ \E i \in Waiting(r) : response_channel[i].kind = "RequestTimeout"

\* C17: what a callback is given is the outcome that won in its task:
\* Ok(Response) exactly when the transport had succeeded, and then with the
\* Request as submitted; Err(HTTPError) exactly when the transport had
\* failed; Err(RequestCancelled) only with the transport unfinished and the
\* token gone; Err(RequestTimeout) only with the transport unfinished and
\* the Delay elapsed; and nothing else.
C17_DeliveredValueIsWinner ==
    \A r \in Requests : \A i \in DOMAIN callback_log[r] :
        LET e == callback_log[r][i]
        IN  /\ e.result \in ResultKinds
            /\ e.result = "Response" <=> transport[r] = "ok"
            /\ e.result = "HTTPError" <=> transport[r] = "err"
            /\ e.base_request =
                  IF e.result = "Response" THEN Some(request[r]) ELSE None
            /\ e.result = "RequestCancelled" =>
                  transport[r] = "pending" /\ token[r] = "dropped"
            /\ e.result = "RequestTimeout" =>
                  transport[r] = "pending" /\ delay[r].state = "elapsed"

C17_Witness ==
    /\ \E r \in Requests :
          /\ request[r] # DefaultRequest
          /\ callback_log[r] = << [result |-> "Response",
                                   base_request |-> Some(request[r]),
                                   thread |-> "owner"] >>
    /\ \E q \in Requests : Results(q) = {"HTTPError"}

\* C18 (as claimed): in ticks, an execute_queue_with_limit call is skipped
\* (returns 0, timestamp kept) exactly when a timestamp is recorded and
\* strictly less than delay_between_executions has passed since; otherwise
\* it records the new timestamp and enters its drain loop.
C18_SkippedIffStrictlyLess ==
    [][\A l \in Limits, d \in Intervals :
          ExecuteQueueWithLimit(l, d) =>
              IF /\ last_time_executed_with_limit # None
                 /\ last_time_executed_with_limit[1] < d
                THEN /\ last_call' = Some([returned |-> 0, recorded |-> FALSE])
                     /\ UNCHANGED << last_time_executed_with_limit, owner >>
                ELSE /\ last_time_executed_with_limit' = Some(0)
                     /\ owner'.pc = "limit"]_vars

\* C19 (as claimed): commands reach the working thread in the order the
\* caller issued them: when Quit is received (the caller is then inside its
\* first stop()), every request submitted so far has been dequeued and
\* given a task.
C19_QuitNeverOvertakes ==
    [][(worker_state = "Running" /\ worker_state' = "Draining") =>
          \A r \in Requests : token[r] # "none" => task[r] # "none"]_vars

\* C20: when a task is polled with its transport result and its
\* cancellation signal both ready, the transport's outcome is the one sent
\* (Response for Ok, HTTPError for Err) and never RequestCancelled; the
\* outcome is a function of what is ready at the poll.
C20_TransportWinsTie ==
    [][\A r \in Requests :
          ( /\ TaskPoll(r)
            /\ transport[r] \in {"ok", "err"}
            /\ token[r] = "dropped" )
          => response_channel'[Len(response_channel')].kind =
                IF transport[r] = "ok" THEN "Response" ELSE "HTTPError"]_vars

C20_Witness ==
    \E r \in Requests :
        /\ cancel_early[r]
        /\ transport[r] = "err"
        /\ Results(r) = {"HTTPError"}

=============================================================================
